---- MODULE Spec2Model ----
(***************************************************************************)
(* Icon annotator plugin: the annotate and realign commands of main(), the *)
(* anchor-group resolver, the outermost-frame locator, the gap/direction   *)
(* calculator and the callout builder, as a state machine over one page.   *)
(*                                                                         *)
(* Two builds of the plugin are in the repository: the TypeScript source   *)
(* (src/unnamed/part_000) and the compiled script (src/code.js).  They     *)
(* differ in the bounds calculateGapAndDirection uses for an element with  *)
(* no frame ancestor; the variable build says which one is running.        *)
(*                                                                         *)
(* Lengths are in pixels.  A wrapper's x and y are kept doubled (x2, y2),  *)
(* because the positioning formulas halve widths and heights: the doubled  *)
(* value of x + w/2 - W/2 is the integer 2x + w - W.                       *)
(***************************************************************************)
EXTENDS Integers, Sequences, FiniteSets, TLC

\* ------------------------------------------------------------- bounds
MaxWrappers == 2      \* wrappers created in one behaviour
MaxGroups == 2        \* anchor groups created in one behaviour
PageWidth == 400      \* figma.currentPage.width, as the host reports it
PageHeight == 300     \* figma.currentPage.height
CharWidth == 10       \* advance of one character of the label font
LineHeight == 21      \* height of one line of the label font
\* ------------------------------------------------- program constants
labelPadding == 66
minLineLength == 60
circleSize == 6
vectorWeight == 2
paddingX == 8
paddingY == 4

\* An absent node, component or frame (null in the source).
NULL == [type |-> "NULL"]
Builds == {"ts", "js"}
Directions == <<"left", "right", "top", "bottom">>

Max2(a, b) == IF a >= b THEN a ELSE b

\* ------------------------------------------------------------- names
\* A name is a sequence of one-character strings.
S_ic_a == <<"i", "c", "_", "a">>
S_IMG_b == <<"I", "M", "G", "_", "b">>
S_icon_check == <<"i", "c", "o", "n", "_", "c", "h", "e", "c", "k">>
S_Ig_z == <<"I", "g", "_", "z">>
S_bar == <<"b", "a", "r">>
S_icx == <<"i", "c", "x">>
S_wrapperPrefix ==
  <<"i", "c", "o", "n", "A", "n", "n", "o", "t", "a", "t", "i", "o", "n", "-">>
S_dash == <<"-">>

\* The i flag of the prefix regular expression: letters compare in lower case.
Lower(c) ==
  CASE c = "I" -> "i" [] c = "C" -> "c" [] c = "G" -> "g" [] c = "M" -> "m"
    [] c = "O" -> "o" [] c = "N" -> "n" [] c = "A" -> "a" [] c = "B" -> "b"
    [] OTHER -> c

startsWith(name, p) ==
  /\ Len(name) >= Len(p)
  /\ \A k \in 1..Len(p) : name[k] = p[k]

Prefixes ==
  { <<"i", "c", "_">>, <<"i", "g", "_">>, <<"i", "m", "g", "_">>,
    <<"i", "c", "o", "n", "_">> }

\* /^(ic_|ig_|img_|icon_)/i.test(name)
prefixTest(name) ==
  \E p \in Prefixes :
    /\ Len(name) >= Len(p)
    /\ \A k \in 1..Len(p) : Lower(name[k]) = p[k]

\* ---------------------------------------------------------- geometry
\* A node's geometry: absolute x, y, width, height and its ancestors from
\* the immediate parent outwards, the page excluded.
RECURSIVE outermostFrom(_, _, _)
outermostFrom(parents, k, outer) ==
  IF k > Len(parents) THEN outer
  ELSE outermostFrom(parents, k + 1,
                     IF parents[k].type = "FRAME" THEN parents[k] ELSE outer)

getOutermostFrame(node) == outermostFrom(node.parents, 1, NULL)

\* Array.prototype.sort with the comparator (a, b) => a.value - b.value:
\* a stable sort, an element moving in front of another only when the
\* comparator is negative.
compareValueReversed(a, b) == b.value - a.value

compareValue(a, b) == a.value - b.value

RECURSIVE insertSorted(_, _)
insertSorted(sorted, e) ==
  IF sorted = <<>> THEN <<e>>
  ELSE LET last == sorted[Len(sorted)] IN
       IF compareValue(e, last) < 0
       THEN Append(insertSorted(SubSeq(sorted, 1, Len(sorted) - 1), e), last)
       ELSE Append(sorted, e)

RECURSIVE sortFrom(_, _, _)
sortFrom(seq, k, sorted) ==
  IF k > Len(seq) THEN sorted
  ELSE sortFrom(seq, k + 1, insertSorted(sorted, seq[k]))

sortGaps(gaps) == sortFrom(gaps, 1, <<>>)

\* The bounds the calculator measures against.  With a frame ancestor both
\* builds use the outermost frame; without one the TypeScript source uses
\* the page and the compiled script the element's own bounds.
calcBounds(node, b) ==
  LET outer == getOutermostFrame(node) IN
  IF outer # NULL
  THEN [left |-> outer.x, top |-> outer.y,
        right |-> outer.x + outer.width, bottom |-> outer.y + outer.height]
  ELSE IF b = "ts"
  THEN [left |-> 0, top |-> 0, right |-> PageWidth, bottom |-> PageHeight]
  ELSE [left |-> node.x, top |-> node.y,
        right |-> node.x + node.width, bottom |-> node.y + node.height]

gapList(node, bd) ==
  << [dir |-> "left", value |-> node.x - bd.left],
     [dir |-> "right", value |-> bd.right - (node.x + node.width)],
     [dir |-> "top", value |-> node.y - bd.top],
     [dir |-> "bottom", value |-> bd.bottom - (node.y + node.height)] >>

calculateGapAndDirection(node, b) ==
  LET gaps == gapList(node, calcBounds(node, b))
      sorted == sortGaps(gaps)
  IN [minDir |-> sorted[1].dir, minGap |-> sorted[1].value,
      x |-> node.x, y |-> node.y,
      gapLeft |-> gaps[1].value, gapRight |-> gaps[2].value,
      gapTop |-> gaps[3].value, gapBottom |-> gaps[4].value]

realignBoundsOwn(node) ==
  LET outer == getOutermostFrame(node) IN
  IF outer # NULL
  THEN [left |-> outer.x, top |-> outer.y,
        right |-> outer.x + outer.width, bottom |-> outer.y + outer.height]
  ELSE [left |-> node.x, top |-> node.y,
        right |-> node.x + node.width, bottom |-> node.y + node.height]

\* The realign branch computes its own bounds, gaps and direction; without
\* a frame ancestor it uses the page in both builds.
realignBounds(node) ==
  LET outer == getOutermostFrame(node) IN
  IF outer # NULL
  THEN [left |-> outer.x, top |-> outer.y,
        right |-> outer.x + outer.width, bottom |-> outer.y + outer.height]
  ELSE [left |-> 0, top |-> 0, right |-> PageWidth, bottom |-> PageHeight]

realignGaps(node) == gapList(node, realignBounds(node))

realignDir(node) == sortGaps(realignGaps(node))[1].dir

\* ----------------------------------------------------- callout builder
\* The label frame around the text: horizontal auto layout, padding 8 and 4.
labelFrameOf(characters) ==
  [characters |-> characters,
   width |-> 2 * paddingX + CharWidth * Len(characters),
   height |-> 2 * paddingY + LineHeight]

lineLengthNoMinimum(c) ==
  IF c.minDir = "right" THEN c.gapRight + labelPadding
  ELSE IF c.minDir = "left" THEN c.gapLeft + labelPadding
  ELSE IF c.minDir = "top" THEN c.gapTop + labelPadding
  ELSE c.gapBottom + labelPadding

\* The connector length the builder ends with: each direction's branch
\* takes the gap of its own direction.
lineLengthOf(c) ==
  IF c.minDir = "right" THEN Max2(c.gapRight + labelPadding, minLineLength)
  ELSE IF c.minDir = "left" THEN Max2(c.gapLeft + labelPadding, minLineLength)
  ELSE IF c.minDir = "top" THEN Max2(c.gapTop + labelPadding, minLineLength)
  ELSE Max2(c.gapBottom + labelPadding, minLineLength)

\* The "icon-naming-card" frame: auto layout without spacing hugs its three
\* children, the dot (6 x 6), the connector and the label.
groupFrameOf(c, labelFrame) ==
  LET lineLength == lineLengthOf(c)
      horizontal == c.minDir \in {"right", "left"}
  IN [type |-> "FRAME",
      layoutMode |-> IF horizontal THEN "HORIZONTAL" ELSE "VERTICAL",
      children |-> IF c.minDir \in {"right", "bottom"}
                   THEN <<"circle", "vector", "label">>
                   ELSE <<"label", "vector", "circle">>,
      lineLength |-> lineLength,
      characters |-> labelFrame.characters,
      width |-> IF horizontal
                THEN circleSize + lineLength + labelFrame.width
                ELSE Max2(labelFrame.width, Max2(circleSize, vectorWeight)),
      height |-> IF horizontal
                 THEN Max2(labelFrame.height, Max2(circleSize, vectorWeight))
                 ELSE circleSize + lineLength + labelFrame.height]

\* The direction-specific origin of a wrapper, doubled.
groupXMap(dir, x, w, W) ==
  IF dir = "right" THEN 2 * (x + w)
  ELSE IF dir = "left" THEN 2 * (x - W)
  ELSE 2 * x + w - W

groupYMap(dir, y, h, H) ==
  IF dir \in {"right", "left"} THEN 2 * y + h - H
  ELSE IF dir = "top" THEN 2 * (y - H)
  ELSE 2 * (y + h)

createAnnotationGroup(node, labelFrame, uuid, id, b) ==
  LET c == calculateGapAndDirection(node, b)
      groupFrame == groupFrameOf(c, labelFrame)
  IN [id |-> id,
      name |-> S_wrapperPrefix \o uuid,
      x2 |-> groupXMap(c.minDir, c.x, node.width, groupFrame.width),
      y2 |-> groupYMap(c.minDir, c.y, node.height, groupFrame.height),
      locked |-> TRUE,
      targetId |-> node.id,
      uuid |-> uuid,
      iconId |-> 0,
      frame |-> groupFrame]

\* ------------------------------------------------------------- scene
Icons == {1, 2}
mainGroupName == "Annotations"

FrameA == [type |-> "FRAME", x |-> 0, y |-> 0, width |-> 375, height |-> 100]
FrameB == [type |-> "FRAME", x |-> 300, y |-> 10, width |-> 60, height |-> 60]
GroupC == [type |-> "GROUP", x |-> 20, y |-> 20, width |-> 30, height |-> 40]

\* Where an element can be: its absolute box and its ancestors.
Placements ==
  << [x |-> 100, y |-> 100, width |-> 24, height |-> 24, parents |-> <<FrameA>>],
     [x |-> 370, y |-> 40, width |-> 25, height |-> 24, parents |-> <<>>],
     [x |-> 310, y |-> 30, width |-> 24, height |-> 24,
      parents |-> <<FrameB, FrameA>>],
     [x |-> 20, y |-> 20, width |-> 24, height |-> 25,
      parents |-> <<GroupC, FrameA>>] >>

\* What an element can be: its type, its name and, for an instance, the
\* component getMainComponentAsync resolves (NULL when it cannot).
Layer(name) == [type |-> "VECTOR", name |-> name, comp |-> NULL]
Component(name) == [type |-> "COMPONENT", name |-> name, comp |-> NULL]
Instance(name, compName) ==
  [type |-> "INSTANCE", name |-> name,
   comp |-> [type |-> "COMPONENT", name |-> compName]]
BrokenInstance(name) == [type |-> "INSTANCE", name |-> name, comp |-> NULL]
Absent == [type |-> "NULL", name |-> <<>>, comp |-> NULL]

\* The pages the machine starts from: what elements 1 and 2 are (Absent:
\* the page has no such element) and the places the page offers them.
Pages ==
  { [kinds |-> <<Layer(S_ic_a), Layer(S_Ig_z)>>, places |-> {1}],
    [kinds |-> <<Layer(S_ic_a), Absent>>, places |-> {1, 2, 3, 4}],
    [kinds |-> <<Layer(S_ic_a), Layer(S_bar)>>, places |-> {1}],
    [kinds |-> <<Instance(S_bar, S_icon_check), Instance(S_ic_a, S_bar)>>,
     places |-> {1}],
    [kinds |-> <<Component(S_IMG_b), BrokenInstance(S_Ig_z)>>, places |-> {1}],
    [kinds |-> <<Instance(S_ic_a, S_IMG_b), Component(S_icx)>>,
     places |-> {2}] }

VARIABLES
  build,          \* which build of the plugin runs
  places,         \* the places the page offers its elements
  icons,          \* the elements of the page: alive, type, name, comp, place
  pageGroups,     \* the page's groups named mainGroupName, in child order
  mainGroupId,    \* the page's plugin data "mainGroupId" (0: not set)
  lastRun,        \* what the last command reported
  created,        \* wrappers created so far
  groupsCreated,  \* anchor groups created so far
  arg,            \* SpecCalc: the element the pure functions are applied to
  res             \* SpecCalc: their results

vars == <<build, places, icons, pageGroups, mainGroupId, lastRun, created,
          groupsCreated, arg, res>>

\* No command has run since the user last changed the page.  Otherwise:
\* the command, the selection it found, the message it closed with, the
\* warnings it raised and the counts it reported.
NoRun == [cmd |-> "none", sel |-> <<>>, msg |-> "", warnings |-> <<>>,
          produced |-> 0, realigned |-> 0, removed |-> 0]

InstanceWarning ==
  "Instance corresponding component must start with ic_/ig_/img_/icon_."
ComponentWarning == "Component name must start with ic_/ig_/img_/icon_."
LayerWarning == "Layer name must start with ic_/ig_/img_/icon_."

IconRef(i) == [kind |-> "icon", id |-> i]
WrapperRef(w) == [kind |-> "wrapper", id |-> w.id]
WrapperId(n) == 10 + n
GroupId(n) == 20 + n

\* The token of the n-th wrapper: the clock's milliseconds followed by a
\* random number, here a digit string that differs from wrapper to wrapper.
Digits == <<"1", "2", "3", "4", "5", "6", "7", "8", "9">>
uuidOf(n) == <<Digits[n]>>

\* The scene node of an element.
iconNode(ics, i) ==
  LET p == Placements[ics[i].place] IN
  [id |-> i, type |-> ics[i].type, name |-> ics[i].name,
   x |-> p.x, y |-> p.y, width |-> p.width, height |-> p.height,
   parents |-> p.parents]

RECURSIVE concatChildren(_, _)
concatChildren(groups, k) ==
  IF k > Len(groups) THEN <<>>
  ELSE groups[k].children \o concatChildren(groups, k + 1)

\* Every wrapper of the page.
allWrappers(groups) == concatChildren(groups, 1)

wrapperById(groups, id) ==
  LET ws == allWrappers(groups) IN
  ws[CHOOSE k \in 1..Len(ws) : ws[k].id = id]

getNodeByIdOfRemoved(ics, id) ==
  IF id \in Icons THEN iconNode(ics, id) ELSE NULL

\* figma.getNodeByIdAsync for a wrapper's stored "iconId".
getNodeById(ics, id) ==
  IF id \in Icons /\ ics[id].alive THEN iconNode(ics, id) ELSE NULL

\* ------------------------------------------------- anchor-group resolver
RECURSIVE firstMainGroup(_, _)
firstMainGroup(groups, k) ==
  IF k > Len(groups) THEN NULL
  ELSE IF groups[k].type = "GROUP" /\ groups[k].name = mainGroupName
  THEN groups[k]
  ELSE firstMainGroup(groups, k + 1)

\* The node the cached identifier resolves to, NULL when it does not.
cachedNode(groups, cachedId) ==
  IF \E k \in 1..Len(groups) : groups[k].id = cachedId
  THEN groups[CHOOSE k \in 1..Len(groups) : groups[k].id = cachedId]
  ELSE NULL

getMainGroupCacheOnly(groups, cachedId) ==
  LET node == IF cachedId # 0 THEN cachedNode(groups, cachedId) ELSE NULL
  IN IF node # NULL /\ node.type = "GROUP" /\ node.name = mainGroupName
     THEN [node |-> node, cache |-> cachedId]
     ELSE [node |-> NULL, cache |-> cachedId]

\* getMainGroup: the group found (or NULL) and the plugin data afterwards.
getMainGroup(groups, cachedId) ==
  LET node == IF cachedId # 0 THEN cachedNode(groups, cachedId) ELSE NULL
      found == firstMainGroup(groups, 1)
  IN IF node # NULL /\ node.type = "GROUP" /\ node.name = mainGroupName
     THEN [node |-> node, cache |-> cachedId]
     ELSE IF found # NULL
     THEN [node |-> found, cache |-> found.id]
     ELSE [node |-> NULL, cache |-> cachedId]

\* ------------------------------------------------------------ annotate
refType(ref, ics, groups) ==
  IF ref.kind = "icon" THEN ics[ref.id].type ELSE "GROUP"

refName(ref, ics, groups) ==
  IF ref.kind = "icon" THEN ics[ref.id].name
  ELSE wrapperById(groups, ref.id).name

validateOwnName(ref, ics, groups) ==
  LET type == refType(ref, ics, groups)
      name == refName(ref, ics, groups)
  IN IF ~prefixTest(name)
     THEN [ok |-> FALSE, originalName |-> name,
           note |-> IF type = "INSTANCE" THEN InstanceWarning
                    ELSE IF type = "COMPONENT" THEN ComponentWarning
                    ELSE LayerWarning]
     ELSE [ok |-> TRUE, originalName |-> name, note |-> ""]

\* The prefix validation of one selected node: whether it is accepted, the
\* name the label shows and the warning a rejection raises.
validate(ref, ics, groups) ==
  LET type == refType(ref, ics, groups)
      name == refName(ref, ics, groups)
  IN IF type = "INSTANCE"
     THEN LET comp == ics[ref.id].comp IN
          IF comp = NULL \/ ~prefixTest(comp.name)
          THEN [ok |-> FALSE, originalName |-> name, note |-> InstanceWarning]
          ELSE [ok |-> TRUE, originalName |-> comp.name, note |-> ""]
     ELSE IF type = "COMPONENT"
     THEN IF ~prefixTest(name)
          THEN [ok |-> FALSE, originalName |-> name, note |-> ComponentWarning]
          ELSE [ok |-> TRUE, originalName |-> name, note |-> ""]
     ELSE IF ~prefixTest(name)
          THEN [ok |-> FALSE, originalName |-> name, note |-> LayerWarning]
          ELSE [ok |-> TRUE, originalName |-> name, note |-> ""]

RECURSIVE annotateLoopStopAtRejected(_, _, _, _, _)
annotateLoopStopAtRejected(sel, k, acc, groups, b) ==
  IF k > Len(sel) THEN acc
  ELSE
    LET v == validate(sel[k], acc.icons, groups) IN
    IF ~v.ok
    THEN [acc EXCEPT !.warnings = Append(@, v.note)]
    ELSE
      LET i == sel[k].id
          uuid == uuidOf(acc.created + 1)
          built == createAnnotationGroup(iconNode(acc.icons, i),
                                         labelFrameOf(v.originalName), uuid,
                                         WrapperId(acc.created + 1), b)
          wrapper == [built EXCEPT !.iconId = i]
      IN annotateLoopStopAtRejected(sel, k + 1,
           [acc EXCEPT
              !.icons[i].name = v.originalName \o S_dash \o uuid,
              !.wrappers = Append(@, wrapper),
              !.created = @ + 1], groups, b)

\* One pass of the annotate loop over the selection, from position k.
\* acc: the elements, the wrappers produced, the warnings, the wrappers
\* created so far.
RECURSIVE annotateLoop(_, _, _, _, _)
annotateLoop(sel, k, acc, groups, b) ==
  IF k > Len(sel) THEN acc
  ELSE
    LET v == validate(sel[k], acc.icons, groups) IN
    IF ~v.ok
    THEN annotateLoop(sel, k + 1,
                      [acc EXCEPT !.warnings = Append(@, v.note)], groups, b)
    ELSE
      LET i == sel[k].id
          uuid == uuidOf(acc.created + 1)
          built == createAnnotationGroup(iconNode(acc.icons, i),
                                         labelFrameOf(v.originalName), uuid,
                                         WrapperId(acc.created + 1), b)
          wrapper == [built EXCEPT !.iconId = i]
      IN annotateLoop(sel, k + 1,
           [acc EXCEPT
              !.icons[i].name = v.originalName \o S_dash \o uuid,
              !.wrappers = Append(@, wrapper),
              !.created = @ + 1], groups, b)

annotateResult(sel) ==
  annotateLoop(sel, 1,
               [icons |-> icons, wrappers |-> <<>>, warnings |-> <<>>,
                created |-> created], pageGroups, build)

\* Moving a group to the end of the page's children.
withoutGroup(groups, id) == SelectSeq(groups, LAMBDA g : g.id # id)

mergeIntoMainGroupLeftUnlocked(groups, mainGroup, wrappers, newId) ==
  IF mainGroup = NULL
  THEN Append(groups, [id |-> newId, type |-> "GROUP", name |-> mainGroupName,
                       locked |-> TRUE, children |-> wrappers])
  ELSE Append(withoutGroup(groups, mainGroup.id),
              [mainGroup EXCEPT !.children = @ \o wrappers, !.locked = FALSE])

\* figma.group of the wrappers when the page has no anchor group, else the
\* group unlocked, the wrappers appended, the group locked; either way
\* the group ends as the page's last child.
mergeIntoMainGroup(groups, mainGroup, wrappers, newId) ==
  IF mainGroup = NULL
  THEN Append(groups, [id |-> newId, type |-> "GROUP", name |-> mainGroupName,
                       locked |-> TRUE, children |-> wrappers])
  ELSE Append(withoutGroup(groups, mainGroup.id),
              [mainGroup EXCEPT !.children = @ \o wrappers, !.locked = TRUE])

RECURSIVE refsOf(_, _)
refsOf(wrappers, k) ==
  IF k > Len(wrappers) THEN <<>>
  ELSE <<WrapperRef(wrappers[k])>> \o refsOf(wrappers, k + 1)

AnnotateEmpty ==
  /\ lastRun' = [NoRun EXCEPT !.cmd = "annotate",
                              !.msg = "Please select one or more icons."]
  /\ UNCHANGED <<build, places, icons, pageGroups, mainGroupId, created,
                 groupsCreated, arg, res>>

AnnotateRun(sel) ==
  LET mg == getMainGroup(pageGroups, mainGroupId)
      r == annotateResult(sel)
  IN /\ r.created <= MaxWrappers
     /\ mg.node = NULL /\ r.wrappers # <<>> => groupsCreated < MaxGroups
     /\ mainGroupId' = mg.cache
     /\ icons' = r.icons
     /\ created' = r.created
     /\ IF r.wrappers = <<>>
        THEN /\ lastRun' = [NoRun EXCEPT
                   !.cmd = "annotate", !.sel = sel, !.warnings = r.warnings,
                   !.msg = "No icons annotated, please check naming."]
             /\ UNCHANGED <<pageGroups, groupsCreated>>
        ELSE /\ pageGroups' = mergeIntoMainGroup(pageGroups, mg.node, r.wrappers,
                                                 GroupId(groupsCreated + 1))
             /\ groupsCreated' = IF mg.node = NULL THEN groupsCreated + 1
                                 ELSE groupsCreated
             /\ lastRun' = [NoRun EXCEPT
                   !.cmd = "annotate", !.sel = sel, !.warnings = r.warnings,
                   !.produced = Len(r.wrappers),
                   !.msg = "Annotated icons successfully."]
     /\ UNCHANGED <<build, places, arg, res>>

RECURSIVE iconRefs(_, _)
iconRefs(is, k) ==
  IF k > Len(is) THEN <<>> ELSE <<IconRef(is[k])>> \o iconRefs(is, k + 1)

\* The selections of elements the user can make: distinct living elements.
IconSelections ==
  { iconRefs(is, 1) : is \in
      { q \in UNION { [1..n -> Icons] : n \in 0..Cardinality(Icons) } :
          /\ \A a, c \in 1..Len(q) : a # c => q[a] # q[c]
          /\ \A a \in 1..Len(q) : icons[q[a]].alive } }

\* The selections of wrappers: one wrapper, or the wrappers the last
\* annotate produced and left selected.
WrapperSelections ==
  LET ws == allWrappers(pageGroups) IN
  { <<WrapperRef(ws[k])>> : k \in 1..Len(ws) }
    \cup { refsOf(SubSeq(ws, Len(ws) - n + 1, Len(ws)), 1) :
             n \in IF lastRun.cmd = "annotate" THEN {lastRun.produced} ELSE {} }

\* The annotate command.  sel is figma.currentPage.selection as the command
\* finds it: elements the user has picked, or wrappers.  The command reads
\* the selection nowhere else, and its last statement leaves the wrappers
\* it produced selected.
Annotate ==
  \E sel \in IconSelections \cup WrapperSelections :
    IF sel = <<>> THEN AnnotateEmpty ELSE AnnotateRun(sel)

\* ------------------------------------------------------------- realign
repositionAdding(wrapper, node) ==
  LET dir == realignDir(node) IN
  [wrapper EXCEPT
     !.x2 = @ + groupXMap(dir, node.x, node.width, wrapper.frame.width),
     !.y2 = @ + groupYMap(dir, node.y, node.height, wrapper.frame.height)]

repositionByTargetSize(wrapper, node) ==
  LET dir == realignDir(node) IN
  [wrapper EXCEPT
     !.x2 = groupXMap(dir, node.x, node.width, node.width),
     !.y2 = groupYMap(dir, node.y, node.height, node.height)]

\* The position realign gives a wrapper whose target is node.
reposition(wrapper, node) ==
  LET dir == realignDir(node) IN
  [wrapper EXCEPT
     !.x2 = groupXMap(dir, node.x, node.width, wrapper.frame.width),
     !.y2 = groupYMap(dir, node.y, node.height, wrapper.frame.height)]

\* The loop over a copy of the group's children, from position k.
\* acc: the children kept, the realigned count, the removed count.
RECURSIVE realignLoop(_, _, _, _)
realignLoop(children, k, acc, ics) ==
  IF k > Len(children) THEN acc
  ELSE
    LET wrapper == children[k]
        icon == getNodeById(ics, wrapper.iconId)
    IN IF ~startsWith(wrapper.name, S_wrapperPrefix)
       THEN realignLoop(children, k + 1,
                        [acc EXCEPT !.kept = Append(@, wrapper)], ics)
       ELSE IF icon = NULL
       THEN realignLoop(children, k + 1, [acc EXCEPT !.removed = @ + 1], ics)
       ELSE IF wrapper.frame = NULL
       THEN realignLoop(children, k + 1,
                        [acc EXCEPT !.kept = Append(@, wrapper)], ics)
       ELSE realignLoop(children, k + 1,
                        [acc EXCEPT !.kept = Append(@, reposition(wrapper, icon)),
                                    !.realigned = @ + 1], ics)

realignResult(mainGroup) ==
  realignLoop(mainGroup.children, 1,
              [kept |-> <<>>, realigned |-> 0, removed |-> 0], icons)

RealignFailFallingThrough ==
  /\ lastRun' = [NoRun EXCEPT !.cmd = "realign", !.msg = "Re-aligned"]
  /\ UNCHANGED <<build, places, icons, pageGroups, mainGroupId, created,
                 groupsCreated, arg, res>>

RealignFail ==
  /\ lastRun' = [NoRun EXCEPT !.cmd = "realign",
                              !.msg = "can't find main group."]
  /\ UNCHANGED <<build, places, icons, pageGroups, mainGroupId, created,
                 groupsCreated, arg, res>>

RealignRun ==
  LET mg == getMainGroup(pageGroups, mainGroupId)
      r == realignResult(mg.node)
      groups == Append(withoutGroup(pageGroups, mg.node.id),
                       [mg.node EXCEPT !.children = r.kept, !.locked = TRUE])
  IN /\ mainGroupId' = mg.cache
     /\ pageGroups' = groups
     /\ lastRun' = [NoRun EXCEPT !.cmd = "realign", !.msg = "Re-aligned",
                                 !.realigned = r.realigned,
                                 !.removed = r.removed]
     /\ UNCHANGED <<build, places, icons, created, groupsCreated, arg, res>>

\* The realign command.
Realign ==
  IF getMainGroup(pageGroups, mainGroupId).node = NULL THEN RealignFail
  ELSE RealignRun

\* ------------------------------------------------------------ the user
Deleted == [alive |-> FALSE, type |-> "NULL", name |-> <<>>, comp |-> NULL,
            place |-> 1]

MoveIcon(i, p) ==
  /\ icons[i].alive
  /\ p \in places
  /\ icons[i].place # p
  /\ icons' = [icons EXCEPT ![i].place = p]
  /\ lastRun' = NoRun
  /\ UNCHANGED <<build, places, pageGroups, mainGroupId, created,
                 groupsCreated, arg, res>>

DeleteIcon(i) ==
  /\ icons[i].alive
  /\ icons' = [icons EXCEPT ![i] = Deleted]
  /\ lastRun' = NoRun
  /\ UNCHANGED <<build, places, pageGroups, mainGroupId, created,
                 groupsCreated, arg, res>>

DeleteMainGroup(k) ==
  /\ pageGroups' = withoutGroup(pageGroups, pageGroups[k].id)
  /\ lastRun' = NoRun
  /\ UNCHANGED <<build, places, icons, mainGroupId, created, groupsCreated,
                 arg, res>>

\* The user unlocks an anchor group in the layers panel.
UnlockMainGroup(k) ==
  /\ pageGroups[k].locked
  /\ pageGroups' = [pageGroups EXCEPT ![k].locked = FALSE]
  /\ lastRun' = NoRun
  /\ UNCHANGED <<build, places, icons, mainGroupId, created, groupsCreated,
                 arg, res>>

\* --------------------------------------------------------- the machine
NoArg == [id |-> 0, type |-> "NULL"]

MinOf(S) == CHOOSE m \in S : \A n \in S : m <= n

Init ==
  /\ build \in Builds
  /\ \E pg \in Pages :
       /\ places = pg.places
       /\ icons = [i \in Icons |->
                     IF pg.kinds[i] = Absent THEN Deleted
                     ELSE [alive |-> TRUE, type |-> pg.kinds[i].type,
                           name |-> pg.kinds[i].name, comp |-> pg.kinds[i].comp,
                           place |-> MinOf(pg.places)]]
  /\ pageGroups = <<>>
  /\ mainGroupId = 0
  /\ lastRun = NoRun
  /\ created = 0
  /\ groupsCreated = 0
  /\ arg = NoArg
  /\ res = NoArg

Next ==
  \/ Annotate
  \/ Realign
  \/ \E i \in Icons, p \in 1..Len(Placements) : MoveIcon(i, p)
  \/ \E i \in Icons : DeleteIcon(i)
  \/ \E k \in 1..Len(pageGroups) : DeleteMainGroup(k)
  \/ \E k \in 1..Len(pageGroups) : UnlockMainGroup(k)

Spec == Init /\ [][Next]_vars

\* ------------------------------------------- the pure functions alone
\* The elements the calculator and the builder are applied to: positions
\* and sizes around a frame at the origin, under a frame, under a group in
\* a frame, under nested frames or directly on the page; and the element
\* at (100, 100) of size 24 x 24 in a frame of 375 x 100.
CalcFrame == [type |-> "FRAME", x |-> 0, y |-> 0, width |-> 18, height |-> 18]
CalcInner == [type |-> "FRAME", x |-> 4, y |-> 2, width |-> 9, height |-> 11]
CalcGroup == [type |-> "GROUP", x |-> 0, y |-> 0, width |-> 7, height |-> 7]

CalcNodes ==
  { [id |-> 1, type |-> "VECTOR", name |-> S_ic_a, x |-> x, y |-> y,
     width |-> w, height |-> h, parents |-> ps] :
      x \in {-7, -6, 0, 6, 12}, y \in {-7, 0, 6, 12}, w \in {6, 7}, h \in {6, 9},
      ps \in { <<>>, <<CalcFrame>>, <<CalcGroup, CalcFrame>>,
               <<CalcInner, CalcFrame>> } }
  \cup { [id |-> 1, type |-> "VECTOR", name |-> S_ic_a, x |-> 100, y |-> 100,
          width |-> 24, height |-> 24, parents |-> <<FrameA>>] }

InitCalc ==
  /\ build \in Builds
  /\ arg \in CalcNodes
  /\ res = NoArg
  /\ places = {}
  /\ icons = [i \in Icons |-> Deleted]
  /\ pageGroups = <<>>
  /\ mainGroupId = 0
  /\ lastRun = NoRun
  /\ created = 0
  /\ groupsCreated = 0

\* The gap/direction calculator as annotate calls it, and the gaps and the
\* direction as realign computes them.
Calculate ==
  /\ res' = [id |-> 1, type |-> "calc",
             calc |-> calculateGapAndDirection(arg, build),
             gaps |-> realignGaps(arg), dir |-> realignDir(arg)]
  /\ UNCHANGED <<build, places, icons, pageGroups, mainGroupId, lastRun,
                 created, groupsCreated, arg>>

\* The callout builder, and realign's move of the wrapper it built.
Build ==
  /\ res' = LET wrapper == createAnnotationGroup(arg, labelFrameOf(arg.name),
                                                 uuidOf(1), WrapperId(1), build)
            IN [id |-> 2, type |-> "build", wrapper |-> wrapper,
                moved |-> reposition(wrapper, arg)]
  /\ UNCHANGED <<build, places, icons, pageGroups, mainGroupId, lastRun,
                 created, groupsCreated, arg>>

NextCalc == Calculate \/ Build

SpecCalc == InitCalc /\ [][NextCalc]_vars

\* =============================================================== claims
DirSet == {"left", "right", "top", "bottom"}
Rank(d) == CHOOSE k \in 1..4 : Directions[k] = d

\* The four signed gaps of an element against bounds bd.
SignedGaps(node, bd) ==
  [d \in DirSet |->
     CASE d = "left" -> node.x - bd.left
       [] d = "right" -> bd.right - (node.x + node.width)
       [] d = "top" -> node.y - bd.top
       [] d = "bottom" -> bd.bottom - (node.y + node.height)]

\* d has the smallest gap, and no direction before d in the order left,
\* right, top, bottom has a gap as small.
SmallestFirst(g, d) ==
  \A e \in DirSet : g[d] <= g[e] /\ (Rank(e) < Rank(d) => g[e] > g[d])

\* C1: the calculator returns the direction of the smallest signed gap
\* among left = x - leftBound, right = rightBound - (x + width),
\* top = y - topBound, bottom = bottomBound - (y + height), a negative gap
\* included, the first of left, right, top, bottom winning a tie; so does
\* the direction realign computes.
C1_SmallestGapWins ==
  res.type = "calc" =>
    LET g == SignedGaps(arg, calcBounds(arg, build))
        r == SignedGaps(arg, realignBounds(arg))
    IN /\ SmallestFirst(g, res.calc.minDir)
       /\ res.calc.minGap = g[res.calc.minDir]
       /\ res.calc.gapLeft = g["left"] /\ res.calc.gapRight = g["right"]
       /\ res.calc.gapTop = g["top"] /\ res.calc.gapBottom = g["bottom"]
       /\ SmallestFirst(r, res.dir)

\* The element at (100, 100) of size 24 x 24 in the frame at (0, 0) of size
\* 375 x 100: gaps 100, 251, 100, -24 and direction bottom.
C1_Witness ==
  /\ res.type = "calc"
  /\ arg.x = 100 /\ arg.y = 100 /\ arg.width = 24 /\ arg.height = 24
  /\ arg.parents = <<FrameA>>
  /\ res.calc.gapLeft = 100 /\ res.calc.gapRight = 251
  /\ res.calc.gapTop = 100 /\ res.calc.gapBottom = -24
  /\ res.calc.minDir = "bottom" /\ res.calc.minGap = -24
  /\ res.dir = "bottom"

\* C7: the connector of a built callout is max(g + 66, 60) long, g being the
\* gap of the direction the calculator chose: g + 66 when g >= -6, 60
\* otherwise, never below 60.
C7_ConnectorLength ==
  res.type = "build" =>
    LET c == calculateGapAndDirection(arg, build)
        g == SignedGaps(arg, calcBounds(arg, build))[c.minDir]
        len == res.wrapper.frame.lineLength
    IN /\ len = IF g >= -6 THEN g + 66 ELSE 60
       /\ len >= 60
       /\ len = Max2(g + 66, 60)

\* A callout whose chosen gap is below -6: the minimum length applies.
C7_Witness ==
  /\ res.type = "build"
  /\ calculateGapAndDirection(arg, build).minGap = -7
  /\ res.wrapper.frame.lineLength = 60

IdsOf(ws) == { ws[k].id : k \in 1..Len(ws) }
Elems(ws) == { ws[k] : k \in 1..Len(ws) }
IsMainGroup(g) == g.type = "GROUP" /\ g.name = mainGroupName
MainGroupsOf(groups) == { g \in Elems(groups) : IsMainGroup(g) }
TargetResolves(w, ics) == w.targetId \in Icons /\ ics[w.targetId].alive

\* C2: a realign that runs directly after a realign, nothing having
\* happened to the page in between, leaves every wrapper where it is,
\* keeps the same wrappers and removes nothing.
C2_RealignIdempotent ==
  [][ (lastRun.cmd = "realign" /\ lastRun'.cmd = "realign") =>
        /\ { <<w.id, w.x2, w.y2>> : w \in Elems(allWrappers(pageGroups')) }
             = { <<w.id, w.x2, w.y2>> : w \in Elems(allWrappers(pageGroups)) }
        /\ lastRun'.removed = 0 ]_vars

\* A realign has run that moved a wrapper and pruned another.
C2_Witness ==
  /\ lastRun.cmd = "realign"
  /\ lastRun.realigned >= 1
  /\ lastRun.removed >= 1

\* C3: realign removes exactly the wrappers whose stored target identifier
\* does not resolve, reports their number, and leaves every other wrapper
\* a child of the anchor group.
C3_PruneExactlyDangling ==
  [][ lastRun'.cmd = "realign" =>
        LET before == Elems(allWrappers(pageGroups))
            dangling == { w \in before : ~TargetResolves(w, icons) }
            anchor == getMainGroup(pageGroups', mainGroupId').node
        IN /\ IdsOf(allWrappers(pageGroups'))
                = { w.id : w \in before \ dangling }
           /\ lastRun'.removed = Cardinality(dangling)
           /\ \A w \in before \ dangling :
                anchor # NULL /\ w.id \in IdsOf(anchor.children) ]_vars

\* A realign has removed one wrapper and kept another.
C3_Witness ==
  /\ lastRun.cmd = "realign"
  /\ lastRun.removed = 1
  /\ Len(allWrappers(pageGroups)) >= 1
  /\ \E i \in Icons : ~icons[i].alive

\* C4: no element is the stored target of more than one wrapper.
C4_OneCalloutPerTarget ==
  \A v, w \in Elems(allWrappers(pageGroups)) :
    v.id # w.id => v.targetId # w.targetId

\* C5: the page never has two groups with the anchor group's name, and an
\* annotate that finds the group adds its wrappers to it.
C5_AnchorGroupReused ==
  [][ /\ Cardinality(MainGroupsOf(pageGroups')) <= 1
      /\ (lastRun'.cmd = "annotate" /\ lastRun'.produced > 0
            /\ MainGroupsOf(pageGroups) # {}) =>
           \E old \in MainGroupsOf(pageGroups), new \in MainGroupsOf(pageGroups') :
             /\ new.id = old.id
             /\ Len(new.children) = Len(old.children) + lastRun'.produced
             /\ SubSeq(new.children, 1, Len(old.children)) = old.children ]_vars

\* An annotate has added wrappers to a group that had some.
C5_Witness ==
  /\ lastRun.cmd = "annotate"
  /\ lastRun.produced >= 1
  /\ Len(pageGroups) = 1
  /\ Len(pageGroups[1].children) > lastRun.produced

\* The first characters of a name, in lower case, are an accepted prefix.
HasAcceptedPrefix(name) ==
  LET low == [k \in 1..Len(name) |-> Lower(name[k])] IN
  \/ Len(name) >= 3 /\ SubSeq(low, 1, 3) \in { <<"i", "c", "_">>, <<"i", "g", "_">> }
  \/ Len(name) >= 4 /\ SubSeq(low, 1, 4) = <<"i", "m", "g", "_">>
  \/ Len(name) >= 5 /\ SubSeq(low, 1, 5) = <<"i", "c", "o", "n", "_">>

\* A selected node is accepted: an instance by its component's name, any
\* other node by its own.
Accepted(ref, ics, groups) ==
  IF ref.kind = "icon" /\ ics[ref.id].type = "INSTANCE"
  THEN ics[ref.id].comp # NULL /\ HasAcceptedPrefix(ics[ref.id].comp.name)
  ELSE HasAcceptedPrefix(refName(ref, ics, groups))

\* C6: an annotate over a non-empty selection produces one wrapper per
\* accepted element and one warning per rejected element, and reports
\* success exactly when an element was accepted.
C6_RejectionsDoNotStop ==
  [][ (lastRun'.cmd = "annotate" /\ lastRun'.sel # <<>>) =>
        LET sel == lastRun'.sel
            acc == Cardinality({ k \in 1..Len(sel) :
                                   Accepted(sel[k], icons, pageGroups) })
        IN /\ Len(allWrappers(pageGroups')) = Len(allWrappers(pageGroups)) + acc
           /\ lastRun'.produced = acc
           /\ Len(lastRun'.warnings) = Len(sel) - acc
           /\ acc >= 1 => lastRun'.msg = "Annotated icons successfully."
           /\ acc = 0 => lastRun'.msg = "No icons annotated, please check naming." ]_vars

\* An annotate of two elements has accepted one and rejected the other.
C6_Witness ==
  /\ lastRun.cmd = "annotate"
  /\ Len(lastRun.sel) = 2
  /\ lastRun.produced = 1
  /\ Len(lastRun.warnings) = 1
  /\ lastRun.msg = "Annotated icons successfully."

\* C8: after a realign every wrapper whose target resolves sits at the
\* origin of the direction of the target's smallest gap: right ->
\* (x + w, y + h/2 - H/2), left -> (x - W, y + h/2 - H/2), top ->
\* (x + w/2 - W/2, y - H), bottom -> (x + w/2 - W/2, y + h), for the target's
\* box (x, y, w, h) as it is now and the card's size (W, H).
C8_RealignedPositions ==
  (lastRun.cmd = "realign" /\ lastRun.msg = "Re-aligned") =>
    \A wr \in Elems(allWrappers(pageGroups)) :
      (TargetResolves(wr, icons) /\ wr.frame # NULL) =>
        LET n == iconNode(icons, wr.targetId)
            x == n.x
            y == n.y
            w == n.width
            h == n.height
            W == wr.frame.width
            H == wr.frame.height
            d == CHOOSE e \in DirSet :
                   SmallestFirst(SignedGaps(n, realignBounds(n)), e)
        IN CASE d = "right" -> wr.x2 = 2 * (x + w) /\ wr.y2 = 2 * y + h - H
             [] d = "left" -> wr.x2 = 2 * (x - W) /\ wr.y2 = 2 * y + h - H
             [] d = "top" -> wr.x2 = 2 * x + w - W /\ wr.y2 = 2 * (y - H)
             [] d = "bottom" -> wr.x2 = 2 * x + w - W /\ wr.y2 = 2 * (y + h)

\* A realign has moved the wrapper of an element that was moved to the
\* place where its left gap is the smallest.
C8_Witness ==
  /\ lastRun.cmd = "realign"
  /\ lastRun.realigned >= 1
  /\ \E wr \in Elems(allWrappers(pageGroups)) :
       /\ TargetResolves(wr, icons)
       /\ icons[wr.targetId].place = 4
       /\ wr.x2 = 2 * (20 - wr.frame.width)

\* C9: a realign that finds no anchor group closes with "can't find main
\* group.", reports no counts and changes nothing on the page.
C9_RealignWithoutGroup ==
  [][ (lastRun'.cmd = "realign" /\ MainGroupsOf(pageGroups) = {}) =>
        /\ lastRun'.msg = "can't find main group."
        /\ lastRun'.realigned = 0 /\ lastRun'.removed = 0
        /\ UNCHANGED <<icons, pageGroups, mainGroupId>> ]_vars

\* A realign has failed on a page whose cached identifier is stale.
C9_Witness ==
  /\ lastRun.cmd = "realign"
  /\ lastRun.msg = "can't find main group."
  /\ mainGroupId # 0
  /\ pageGroups = <<>>

\* C10: a selected instance is validated and labelled by its component's
\* name: rejected when the component does not resolve or its name has no
\* accepted prefix, otherwise given one callout whose text is that name.
C10_InstanceByComponentName ==
  [][ lastRun'.cmd = "annotate" =>
        \A k \in 1..Len(lastRun'.sel) :
          LET ref == lastRun'.sel[k] IN
          (ref.kind = "icon" /\ icons[ref.id].type = "INSTANCE") =>
            LET comp == icons[ref.id].comp
                new == { w \in Elems(allWrappers(pageGroups')) :
                           /\ w.id \notin IdsOf(allWrappers(pageGroups))
                           /\ w.targetId = ref.id }
            IN IF comp = NULL \/ ~HasAcceptedPrefix(comp.name)
               THEN new = {}
               ELSE /\ Cardinality(new) = 1
                    /\ \A w \in new : w.frame.characters = comp.name ]_vars

\* An instance called bar of the component icon_check has its callout,
\* and an instance called ic_a of the component bar was rejected.
C10_Witness ==
  /\ lastRun.cmd = "annotate"
  /\ lastRun.produced = 1
  /\ lastRun.warnings = <<InstanceWarning>>
  /\ \E w \in Elems(allWrappers(pageGroups)) :
       /\ w.frame.characters = S_icon_check
       /\ icons[w.targetId].type = "INSTANCE"

\* An element none of whose ancestors is a frame.
NoFrameAncestor(node) ==
  \A k \in 1..Len(node.parents) : node.parents[k].type # "FRAME"

\* The four gaps of an element to the edges of the page.
PageGaps(node) ==
  SignedGaps(node, [left |-> 0, top |-> 0,
                    right |-> PageWidth, bottom |-> PageHeight])

\* The wrapper sits at the origin of direction d for the target node.
AtOrigin(wr, node, d) ==
  LET x == node.x
      y == node.y
      w == node.width
      h == node.height
      W == wr.frame.width
      H == wr.frame.height
  IN CASE d = "right" -> wr.x2 = 2 * (x + w) /\ wr.y2 = 2 * y + h - H
       [] d = "left" -> wr.x2 = 2 * (x - W) /\ wr.y2 = 2 * y + h - H
       [] d = "top" -> wr.x2 = 2 * x + w - W /\ wr.y2 = 2 * (y - H)
       [] d = "bottom" -> wr.x2 = 2 * x + w - W /\ wr.y2 = 2 * (y + h)

\* C11: after a realign, the wrapper of a target that has no frame
\* ancestor sits at the left origin, the four gaps of the target against
\* its own bounds being zero and left the first direction of the tie.
C11_RealignOwnBoundsLeft ==
  (lastRun.cmd = "realign" /\ lastRun.msg = "Re-aligned") =>
    \A wr \in Elems(allWrappers(pageGroups)) :
      (TargetResolves(wr, icons)
         /\ NoFrameAncestor(iconNode(icons, wr.targetId))) =>
        AtOrigin(wr, iconNode(icons, wr.targetId), "left")

\* C11, amended: after a realign, the wrapper of a target that has no
\* frame ancestor sits at the origin of the direction of the target's
\* smallest gap to the edges of the page, (0, 0) to (page width, page
\* height), the first of left, right, top, bottom winning a tie.
C11_RealignPageBounds ==
  (lastRun.cmd = "realign" /\ lastRun.msg = "Re-aligned") =>
    \A wr \in Elems(allWrappers(pageGroups)) :
      (TargetResolves(wr, icons)
         /\ NoFrameAncestor(iconNode(icons, wr.targetId))) =>
        \E d \in DirSet :
          /\ SmallestFirst(PageGaps(iconNode(icons, wr.targetId)), d)
          /\ AtOrigin(wr, iconNode(icons, wr.targetId), d)

\* A realign has moved the wrapper of the element at (370, 40), 25 wide,
\* directly on the page, to the element's right edge.
C11_Witness ==
  /\ lastRun.cmd = "realign"
  /\ lastRun.realigned >= 1
  /\ \E wr \in Elems(allWrappers(pageGroups)) :
       /\ TargetResolves(wr, icons)
       /\ NoFrameAncestor(iconNode(icons, wr.targetId))
       /\ iconNode(icons, wr.targetId).x = 370
       /\ wr.x2 = 2 * (370 + 25)

AnnotatedMessage == "Annotated icons successfully."
NothingAnnotatedMessage == "No icons annotated, please check naming."

\* C12: after an annotate that ended with success or with "nothing
\* annotated", and after a realign that ended with its summary, every
\* anchor group of the page is locked and every wrapper is locked.
C12_LockedAfterEveryRun ==
  lastRun.msg \in {AnnotatedMessage, NothingAnnotatedMessage, "Re-aligned"} =>
    /\ \A g \in MainGroupsOf(pageGroups) : g.locked
    /\ \A w \in Elems(allWrappers(pageGroups)) : w.locked

\* C12, amended: an annotate that ends with success and a realign that
\* ends with its summary leave the anchor group locked, and the wrappers
\* an annotate creates are locked when it ends; an annotate that ends with
\* "nothing annotated" leaves the page's groups, their locked state
\* included, as it found them.
C12_LockReasserted ==
  [][ /\ lastRun'.msg \in {AnnotatedMessage, "Re-aligned"} =>
           /\ MainGroupsOf(pageGroups') # {}
           /\ \A g \in MainGroupsOf(pageGroups') : g.locked
           /\ \A w \in Elems(allWrappers(pageGroups')) :
                w.id \notin IdsOf(allWrappers(pageGroups)) => w.locked
      /\ lastRun'.msg = NothingAnnotatedMessage =>
           pageGroups' = pageGroups ]_vars

\* An annotate has added a wrapper to a group that had one, and the group
\* and the new wrapper are locked.
C12_Witness ==
  /\ lastRun.msg = AnnotatedMessage
  /\ lastRun.produced = 1
  /\ Len(pageGroups) = 1
  /\ Len(pageGroups[1].children) = 2
  /\ pageGroups[1].locked
  /\ pageGroups[1].children[2].locked

\* C13: a realign that runs directly after an annotate, the page not
\* touched in between, leaves every wrapper that annotate created where
\* annotate put it, the direction realign chooses for its target being the
\* one annotate chose, whether or not the target has a frame ancestor.
C13_RealignKeepsAnnotatePlacement ==
  [][ (lastRun.cmd = "annotate" /\ lastRun'.cmd = "realign") =>
        LET ws == allWrappers(pageGroups) IN
        \A k \in (Len(ws) - lastRun.produced + 1)..Len(ws) :
          \E v \in Elems(allWrappers(pageGroups')) :
            /\ v.id = ws[k].id
            /\ v.x2 = ws[k].x2
            /\ v.y2 = ws[k].y2 ]_vars

====
